---- MODULE Spec2Model ----
(***************************************************************************)
(* A model of yandextank/config_converter/converter.py: the conversion of  *)
(* a legacy ini configuration into the nested plugin configuration.        *)
(*                                                                         *)
(* Python values are modelled as follows.                                  *)
(*   str            a TLA+ string (Len, SubSeq and \o act on characters)   *)
(*   None/True/False of Section.enabled   "None", "True", "False"          *)
(*   a dict         a function from string keys to tagged values           *)
(*   a tagged value [str |-> s], [bool |-> b], [int |-> n],                *)
(*                  [dict |-> d], [list |-> <<d1, ..., dn>>]               *)
(*   a raised exception   [err |-> "<exception class>"]                    *)
(***************************************************************************)
EXTENDS Integers, Sequences, FiniteSets, TLC

VARIABLES
    phase,      \* the position of the run: which call has returned
    ini,        \* the parsed ini file (cfg_ini), or the arguments of a call
    order,      \* the iteration order of the dicts of this run
    sections,   \* the list of Section objects the run holds
    leftover,   \* enable_sections: the directive lists after the section loop
    output      \* the returned value, or the exception that left the call

vars == <<phase, ini, order, sections, leftover, output>>

(***************************************************************************)
(* Strings                                                                 *)
(***************************************************************************)

Char(s, i) == SubSeq(s, i, i)

UpperLetters == "ABCDEFGHIJKLMNOPQRSTUVWXYZ"

LowerLetters == "abcdefghijklmnopqrstuvwxyz"

Digits == "0123456789"

RECURSIVE IndexIn(_, _, _)
\* The least index >= i at which character c stands in s; 0 when there is none.
IndexIn(s, c, i) ==
    IF i > Len(s) THEN 0
    ELSE IF Char(s, i) = c THEN i
    ELSE IndexIn(s, c, i + 1)

\* str.lower() on one character.
LowerChar(c) ==
    LET i == IndexIn(UpperLetters, c, 1)
    IN  IF i = 0 THEN c ELSE Char(LowerLetters, i)

RECURSIVE Lower(_)
\* str.lower()
Lower(s) == IF s = "" THEN "" ELSE LowerChar(Head(s)) \o Lower(Tail(s))

\* str.startswith(prefix)
StartsWith(s, prefix) ==
    /\ Len(s) >= Len(prefix)
    /\ SubSeq(s, 1, Len(prefix)) = prefix

RECURSIVE Split(_, _)
\* str.split(sep) for a separator of one character: the fields, left to right.
Split(s, sep) ==
    LET i == IndexIn(s, sep, 1)
    IN  IF i = 0 THEN <<s>>
        ELSE <<SubSeq(s, 1, i - 1)>> \o Split(SubSeq(s, i + 1, Len(s)), sep)

Last(seq) == seq[Len(seq)]

IsSpace(c) == c = " "

RECURSIVE LStrip(_)
LStrip(s) == IF s # "" /\ IsSpace(Head(s)) THEN LStrip(Tail(s)) ELSE s

RECURSIVE RStrip(_)
RStrip(s) ==
    IF s # "" /\ IsSpace(Char(s, Len(s))) THEN RStrip(SubSeq(s, 1, Len(s) - 1)) ELSE s

\* str.strip()
Strip(s) == LStrip(RStrip(s))

RECURSIVE AllDigits(_)
AllDigits(s) == s = "" \/ (IndexIn(Digits, Head(s), 1) # 0 /\ AllDigits(Tail(s)))

\* The digits of an int literal: the literal stripped, without its sign.
Unsigned(s) ==
    LET t == Strip(s)
    IN  IF t # "" /\ Head(t) \in {"+", "-"} THEN Tail(t) ELSE t

\* Whether int(s) returns: s is spaces, an optional sign, one or more digits, spaces.
IsIntLiteral(s) == Unsigned(s) # "" /\ AllDigits(Unsigned(s))

RECURSIVE DigitsValue(_, _)
DigitsValue(s, acc) ==
    IF s = "" THEN acc
    ELSE DigitsValue(Tail(s), 10 * acc + (IndexIn(Digits, Head(s), 1) - 1))

\* int(s), for an s that IsIntLiteral.
IntValue(s) ==
    LET t == Strip(s)
        n == DigitsValue(Unsigned(s), 0)
    IN  IF Head(t) = "-" THEN 0 - n ELSE n

(***************************************************************************)
(* to_bool                                                                 *)
(***************************************************************************)

\* A to_bool whose fallback compares without lower-casing.
to_bool_case_sensitive(value) ==
    IF IsIntLiteral(value) THEN IntValue(value) # 0
    ELSE value = "true"

\* to_bool(value): bool(int(value)), and on ValueError 'true' == value.lower().
to_bool(value) ==
    IF IsIntLiteral(value) THEN IntValue(value) # 0
    ELSE "true" = Lower(value)

\* The longest raw string drawn over BoolAlphabet.
MaxStrLen == 4

BoolAlphabet == {"0", "1", "-", " ", "t", "T", "r", "u", "e"}

RECURSIVE StringsUpTo(_, _)
\* Every string of at most n characters of the alphabet.
StringsUpTo(alphabet, n) ==
    IF n = 0 THEN {""}
    ELSE LET shorter == StringsUpTo(alphabet, n - 1)
         IN  shorter \cup {s \o c : s \in shorter, c \in alphabet}

\* The raw strings to_bool is applied to.
BoolInputs ==
    StringsUpTo(BoolAlphabet, MaxStrLen)
        \cup {"yes", "no", "False", "false", "TRUE", "True", "+1", "10", "1.5", "on"}

InitToBool ==
    /\ phase = "call"
    /\ ini \in BoolInputs
    /\ order = <<>>
    /\ sections = <<>>
    /\ leftover = <<>>
    /\ output = "None"

\* One call of to_bool on the drawn string.
ToBool ==
    /\ phase = "call"
    /\ phase' = "returned"
    /\ output' = [bool |-> to_bool(ini)]
    /\ UNCHANGED <<ini, order, sections, leftover>>

NextToBool == ToBool

SpecToBool == InitToBool /\ [][NextToBool]_vars

(* C2 as stated: a numeric string gives the truthiness of its integer, and
   every non-numeric string, "true" in any case or not, gives true. *)
C2_AsStated ==
    phase = "returned" =>
        output.bool = (IF IsIntLiteral(ini) THEN IntValue(ini) # 0 ELSE TRUE)

\* s is the word "true" with each letter in either case.
IsTrueWord(s) ==
    /\ Len(s) = 4
    /\ Char(s, 1) \in {"t", "T"}
    /\ Char(s, 2) \in {"r", "R"}
    /\ Char(s, 3) \in {"u", "U"}
    /\ Char(s, 4) \in {"e", "E"}

(* C2 amended: a numeric string gives the truthiness of its integer; a
   non-numeric string gives true exactly when its lower-cased form is "true",
   so "yes", "False" and the empty string give false; to_bool always returns. *)
C2_ToBool ==
    phase = "returned" =>
        /\ output.bool \in BOOLEAN
        /\ ini \in {"1", "10", "+1", "-1", " 1", "TRUE", "True", "true", "tRuE"}
              => output.bool = TRUE
        /\ ini \in {"0", "-0", "00", "", "yes", "no", "False", "false", "1.5", "on",
                    "tru", "true ", "t", "1-", "--1", " ", "-"}
              => output.bool = FALSE
        /\ IsIntLiteral(ini) => (output.bool <=> IntValue(ini) # 0)
        /\ ~IsIntLiteral(ini) => (output.bool <=> IsTrueWord(ini))

\* A non-numeric string that is "true" in mixed case has been coerced.
C2_Witness == phase = "returned" /\ ini = "True" /\ output.bool = TRUE

(***************************************************************************)
(* guess_plugin                                                            *)
(***************************************************************************)

\* One alternative of a pattern: the literal lit, then "(" opt ".*)?" when opt # "".
Alt(lit, opt) == [lit |-> lit, opt |-> opt]

\* SECTIONS_PATTERNS, in the order of the source; a pattern is its alternatives.
SECTIONS_PATTERNS ==
    << [plugin |-> "Aggregator", pattern |-> <<Alt("aggregator", "")>>],
       [plugin |-> "Android", pattern |-> <<Alt("android", "")>>],
       [plugin |-> "Appium", pattern |-> <<Alt("appium", "")>>],
       [plugin |-> "Autostop", pattern |-> <<Alt("autostop", "")>>],
       [plugin |-> "BatteryHistorian", pattern |-> <<Alt("battery_historian", "")>>],
       [plugin |-> "Bfg",
        pattern |-> <<Alt("bfg", ""), Alt("ultimate_gun", ""), Alt("http_gun", ""),
                      Alt("custom_gun", ""), Alt("scenario_gun", "")>>],
       [plugin |-> "Phantom", pattern |-> <<Alt("phantom", "-")>>],
       [plugin |-> "DataUploader", pattern |-> <<Alt("meta", ""), Alt("overload", "")>>],
       [plugin |-> "Telegraf", pattern |-> <<Alt("telegraf", ""), Alt("monitoring", "")>>],
       [plugin |-> "JMeter", pattern |-> <<Alt("jmeter", "")>>],
       [plugin |-> "ResourceCheck", pattern |-> <<Alt("rcheck", "")>>],
       [plugin |-> "ShellExec", pattern |-> <<Alt("shellexec", "")>>],
       [plugin |-> "Console", pattern |-> <<Alt("console", "")>>],
       [plugin |-> "TipsAndTricks", pattern |-> <<Alt("tips", "")>>],
       [plugin |-> "RCAssert", pattern |-> <<Alt("rcassert", "")>>] >>

\* The keys of SECTIONS_PATTERNS.
KnownPlugins == {SECTIONS_PATTERNS[i].plugin : i \in DOMAIN SECTIONS_PATTERNS}

\* re.match of one alternative: anchored at the start of s, free at its end. The
\* optional group either matches (opt, then any rest) or is skipped.
AltMatches(alt, s) ==
    \/ StartsWith(s, alt.lit)
    \/ (alt.opt # "" /\ StartsWith(s, alt.lit \o alt.opt))

\* re.match(section_name_pattern, section)
ReMatch(pattern, s) == \E i \in DOMAIN pattern : AltMatches(pattern[i], s)

RECURSIVE GuessFrom(_, _, _)
\* The for loop of guess_plugin over the table's entries in iteration order ord,
\* from position i on; the else of the loop raises.
GuessFrom(ord, section, i) ==
    IF i > Len(ord) THEN [err |-> "UnrecognizedSection"]
    ELSE IF ReMatch(SECTIONS_PATTERNS[ord[i]].pattern, section)
         THEN [str |-> SECTIONS_PATTERNS[ord[i]].plugin]
         ELSE GuessFrom(ord, section, i + 1)

\* A guess_plugin whose loop skips the first entry it is handed.
guess_plugin_skipping_first(ord, section) == GuessFrom(ord, section, 2)

\* guess_plugin(section), the table's dict being iterated in the order ord.
guess_plugin(ord, section) == GuessFrom(ord, section, 1)

IsErr(v) == "err" \in DOMAIN v

\* The table's positions in source order.
SourceOrder == [i \in DOMAIN SECTIONS_PATTERNS |-> i]

Reverse(seq) == [i \in DOMAIN seq |-> seq[Len(seq) + 1 - i]]

Rotate(seq, k) == [i \in DOMAIN seq |-> seq[((i + k - 1) % Len(seq)) + 1]]

\* Iteration orders of the table's dict: the rotations of the source order and
\* their reversals.
TableOrders ==
    {Rotate(SourceOrder, k) : k \in 0..(Len(SourceOrder) - 1)}
        \cup {Reverse(Rotate(SourceOrder, k)) : k \in 0..(Len(SourceOrder) - 1)}

\* Every literal of the table.
Literals ==
    UNION {{SECTIONS_PATTERNS[i].pattern[j].lit : j \in DOMAIN SECTIONS_PATTERNS[i].pattern} :
              i \in DOMAIN SECTIONS_PATTERNS}

\* The section names guess_plugin is applied to: every prefix of every literal
\* (the literal included), every literal with a suffix, and names of no plugin.
GuessInputs ==
    UNION {{SubSeq(l, 1, n) : n \in 0..Len(l)} : l \in Literals}
        \cup {l \o x : l \in Literals, x \in {"-1", "_2", "s"}}
        \cup {"tank", "uploader", "Phantom", "core", "my_phantom", "0", "rc"}

InitGuess ==
    /\ phase = "call"
    /\ ini \in GuessInputs
    /\ order \in TableOrders
    /\ sections = <<>>
    /\ leftover = <<>>
    /\ output = "None"

\* One call of guess_plugin on the drawn section name.
GuessPlugin ==
    /\ phase = "call"
    /\ phase' = "returned"
    /\ output' = guess_plugin(order, ini)
    /\ UNCHANGED <<ini, order, sections, leftover>>

NextGuess == GuessPlugin

SpecGuess == InitGuess /\ [][NextGuess]_vars

\* The plugins whose pattern matches the section name.
MatchingPlugins(section) ==
    {SECTIONS_PATTERNS[i].plugin :
        i \in {k \in DOMAIN SECTIONS_PATTERNS : ReMatch(SECTIONS_PATTERNS[k].pattern, section)}}

(* C7: for every section name at most one entry of the pattern table matches;
   guess_plugin returns that entry's plugin, whatever the order the table is
   visited in, and raises UnrecognizedSection when no entry matches. *)
C7_Classify ==
    phase = "returned" =>
        /\ Cardinality(MatchingPlugins(ini)) <= 1
        /\ MatchingPlugins(ini) = {} => output = [err |-> "UnrecognizedSection"]
        /\ \A p \in MatchingPlugins(ini) : output = [str |-> p]
        /\ ini \in {"phantom", "phantom-1", "phantoms"} => output = [str |-> "Phantom"]
        /\ ini \in {"meta", "overload"} => output = [str |-> "DataUploader"]
        /\ ini \in {"monitoring", "telegraf"} => output = [str |-> "Telegraf"]
        /\ ini \in {"uploader", "tank", "Phantom", "rc", ""} => IsErr(output)

\* A name with a suffix was classified under a table order other than the source's.
C7_Witness ==
    /\ phase = "returned"
    /\ ini = "phantom-1"
    /\ order = Reverse(SourceOrder)
    /\ output = [str |-> "Phantom"]

(***************************************************************************)
(* Option: the converter of one option and its converted value             *)
(***************************************************************************)

PyStr(s) == [str |-> s]

PyBool(b) == [bool |-> b]

PyInt(n) == [int |-> n]

PyDict(d) == [dict |-> d]

PyList(l) == [list |-> l]

IsDict(v) == "dict" \in DOMAIN v

\* The empty dict.
EmptyDict == <<>>

\* dict.update: the entries of upd replace or extend those of d.
DictUpdate(d, upd) ==
    [k \in DOMAIN d \cup DOMAIN upd |-> IF k \in DOMAIN upd THEN upd[k] ELSE d[k]]

\* convert_rps_schedule(key, value)
convert_rps_schedule(key, value) ==
    "load_profile" :> PyDict(("load_type" :> PyStr("rps")) @@ ("schedule" :> PyStr(value)))

\* convert_instances_schedule(key, value)
convert_instances_schedule(key, value) ==
    "load_profile" :> PyDict(("load_type" :> PyStr("instances")) @@ ("schedule" :> PyStr(value)))

\* Option.SPECIAL_CONVERTERS: plugin -> option name -> converter.
SPECIAL_CONVERTERS ==
    ("Phantom" :> (("rps_schedule" :> "convert_rps_schedule")
                    @@ ("instances_schedule" :> "convert_instances_schedule")))
    @@ ("Bfg" :> (("rps_schedule" :> "convert_rps_schedule")
                    @@ ("instances_schedule" :> "convert_instances_schedule")))

\* Option.CONVERTERS_FOR_UNKNOWN: plugin -> converter.
CONVERTERS_FOR_UNKNOWN == "DataUploader" :> "meta"

\* load_plugin_schema('yandextank.plugins.' + plugin) in an environment whose
\* schema files are schemas: a plugin without a schema file raises.
load_plugin_schema(schemas, plugin) ==
    IF plugin \in DOMAIN schemas THEN schemas[plugin] ELSE [err |-> "SchemaNotFound"]

\* Option._get_scheme_converter: the name of the converter, or UnknownOption. A
\* schema entry is [type |-> t], t = "None" standing for an entry without a type.
get_scheme_converter(schemas, plugin, name, schema) ==
    LET FromSchema(used) ==
            IF IsErr(used) THEN used
            ELSE IF name \notin DOMAIN used THEN [err |-> "UnknownOption"]
            ELSE IF used[name].type = "None" THEN [str |-> "dummy_converter"]
            ELSE IF used[name].type \in {"boolean", "integer"} THEN [str |-> used[name].type]
            ELSE [str |-> "dummy_converter"]
    IN  FromSchema(IF schema # EmptyDict THEN schema ELSE load_plugin_schema(schemas, plugin))

\* An Option.converter that asks the schema before the special converters.
converter_schema_first(schemas, plugin, name, schema) ==
    LET Recover(scheme) ==
            IF ~IsErr(scheme) THEN scheme
            ELSE IF plugin \in DOMAIN SPECIAL_CONVERTERS
                        /\ name \in DOMAIN SPECIAL_CONVERTERS[plugin]
                 THEN [str |-> SPECIAL_CONVERTERS[plugin][name]]
            ELSE IF scheme.err = "UnknownOption"
                 THEN IF plugin \in DOMAIN CONVERTERS_FOR_UNKNOWN
                      THEN [str |-> CONVERTERS_FOR_UNKNOWN[plugin]]
                      ELSE [str |-> "dummy_converter"]
            ELSE scheme
    IN  Recover(get_scheme_converter(schemas, plugin, name, schema))

\* Option.converter: the special converter of (plugin, name); on KeyError the
\* schema's converter; on UnknownOption the plugin's converter for unknown
\* options, or the dummy converter.
converter(schemas, plugin, name, schema) ==
    LET Recover(scheme) ==
            IF IsErr(scheme) /\ scheme.err = "UnknownOption"
            THEN IF plugin \in DOMAIN CONVERTERS_FOR_UNKNOWN
                 THEN [str |-> CONVERTERS_FOR_UNKNOWN[plugin]]
                 ELSE [str |-> "dummy_converter"]
            ELSE scheme
    IN  IF plugin \in DOMAIN SPECIAL_CONVERTERS /\ name \in DOMAIN SPECIAL_CONVERTERS[plugin]
        THEN [str |-> SPECIAL_CONVERTERS[plugin][name]]
        ELSE Recover(get_scheme_converter(schemas, plugin, name, schema))

\* The call of a converter on (k, v): a dict, or the exception int(v) raises.
ApplyConverter(conv, k, v) ==
    CASE conv = "convert_rps_schedule" -> PyDict(convert_rps_schedule(k, v))
      [] conv = "convert_instances_schedule" -> PyDict(convert_instances_schedule(k, v))
      [] conv = "meta" -> PyDict("meta" :> PyDict(k :> PyStr(v)))
      [] conv = "boolean" -> PyDict(k :> PyBool(to_bool(v)))
      [] conv = "integer" ->
            IF IsIntLiteral(v) THEN PyDict(k :> PyInt(IntValue(v))) ELSE [err |-> "ValueError"]
      [] OTHER -> PyDict(k :> PyStr(v))

\* Option.converted: self.converter(self.name, self.value).
converted(schemas, plugin, name, value, schema) ==
    LET Call(conv) == IF IsErr(conv) THEN conv ELSE ApplyConverter(conv.str, name, value)
    IN  Call(converter(schemas, plugin, name, schema))

\* The type tags of a schema entry; "None" is an entry without a type.
SchemaTypes == {"None", "boolean", "integer", "string", "list"}

OptionPlugins == {"Phantom", "Bfg", "DataUploader", "Aggregator"}

OptionNames == {"rps_schedule", "instances_schedule", "address", "job_name"}

OptionValues == {"1", "0", "-7", "True", "yes", "line(1,10,1m)"}

\* Every schema over a subset of the names.
SchemasOver(names) ==
    UNION {[S -> {[type |-> t] : t \in SchemaTypes}] : S \in SUBSET names}

\* An Option as Section.__init__ builds it: its schema is the loaded schema of
\* its plugin.
InitOption ==
    /\ phase = "call"
    /\ \E plugin \in OptionPlugins, name \in OptionNames, value \in OptionValues,
          schema \in SchemasOver(OptionNames) :
            ini = [plugin |-> plugin, name |-> name, value |-> value,
                   schemas |-> (plugin :> schema)]
    /\ order = <<>>
    /\ sections = <<>>
    /\ leftover = <<>>
    /\ output = "None"

\* The read of Option.converted.
Converted ==
    /\ phase = "call"
    /\ phase' = "returned"
    /\ output' = converted(ini.schemas, ini.plugin, ini.name, ini.value,
                           load_plugin_schema(ini.schemas, ini.plugin))
    /\ UNCHANGED <<ini, order, sections, leftover>>

NextOption == Converted

SpecOption == InitOption /\ [][NextOption]_vars

\* The schedule options that have a special converter, with their load type.
ScheduleLoadType == ("rps_schedule" :> "rps") @@ ("instances_schedule" :> "instances")

(* C9: the first applicable converter wins. A special converter of
   (plugin, name) gives {load_profile: {load_type, schedule: raw}} whatever the
   schema says; otherwise a name absent from the schema gives {meta: {name: raw}}
   for DataUploader and {name: raw} for every other plugin; otherwise the
   schema's type decides: boolean and integer coerce, an absent or other type
   passes the raw value through. UnknownOption never leaves the conversion. *)
C9_Converter ==
    phase = "returned" =>
        LET schema == ini.schemas[ini.plugin]
            n == ini.name
            v == ini.value
        IN  /\ output # [err |-> "UnknownOption"]
            /\ IF ini.plugin \in {"Phantom", "Bfg"} /\ n \in DOMAIN ScheduleLoadType
               THEN output = PyDict("load_profile" :>
                        PyDict([load_type |-> PyStr(ScheduleLoadType[n]), schedule |-> PyStr(v)]))
               ELSE IF n \notin DOMAIN schema
               THEN IF ini.plugin = "DataUploader"
                    THEN output = PyDict("meta" :> PyDict(n :> PyStr(v)))
                    ELSE output = PyDict(n :> PyStr(v))
               ELSE IF schema[n].type = "boolean"
               THEN output = PyDict(n :> PyBool(v \in {"1", "-7", "True"}))
               ELSE IF schema[n].type = "integer"
               THEN output = (CASE v = "1" -> PyDict(n :> PyInt(1))
                                [] v = "0" -> PyDict(n :> PyInt(0))
                                [] v = "-7" -> PyDict(n :> PyInt(-7))
                                [] OTHER -> [err |-> "ValueError"])
               ELSE output = PyDict(n :> PyStr(v))

\* A special converter has won over a schema that types the option as a boolean.
C9_Witness ==
    /\ phase = "returned"
    /\ ini.plugin = "Phantom"
    /\ ini.name = "rps_schedule"
    /\ "rps_schedule" \in DOMAIN ini.schemas["Phantom"]
    /\ ini.schemas["Phantom"]["rps_schedule"].type = "boolean"
    /\ output = PyDict("load_profile" :>
                    PyDict([load_type |-> PyStr("rps"), schedule |-> PyStr(ini.value)]))

(***************************************************************************)
(* Section                                                                 *)
(***************************************************************************)

\* Python's None, where a dict may stand.
NoneValue == [none |-> TRUE]

\* An option is the pair <<key, value>>.
Key(option) == option[1]

Value(option) == option[2]

\* The table DEPRECATED of is_option_deprecated.
DEPRECATED ==
    ("Aggregator" :> {"time_periods", "precise_cumulative"})
        @@ ("Phantom" :> {"stpd_file"})

\* An is_option_deprecated that looks the option up under every plugin.
is_option_deprecated_any_plugin(plugin, option_name) ==
    \E p \in DOMAIN DEPRECATED : option_name \in DEPRECATED[p]

\* is_option_deprecated(plugin, option_name)
is_option_deprecated(plugin, option_name) ==
    option_name \in (IF plugin \in DOMAIN DEPRECATED THEN DEPRECATED[plugin] ELSE {})

RECURSIVE without_deprecated(_, _)
\* without_deprecated(plugin, options): the filter, in the order of the list.
without_deprecated(plugin, options) ==
    IF options = <<>> THEN <<>>
    ELSE (IF is_option_deprecated(plugin, Key(Head(options))) THEN <<>> ELSE <<Head(options)>>)
            \o without_deprecated(plugin, Tail(options))

\* old_section_name_mapper(name)
old_section_name_mapper(name) ==
    CASE name = "monitoring" -> "telegraf"
      [] name = "meta" -> "uploader"
      [] OTHER -> name

\* Section.__init__(name, plugin, options, enabled): the object, or the
\* exception of load_plugin_schema.
Section(schemas, name, plugin, options, enabled) ==
    LET New(schema) ==
            IF IsErr(schema) THEN schema
            ELSE [init_name |-> name,
                  name |-> old_section_name_mapper(name),
                  plugin |-> plugin,
                  options |-> without_deprecated(plugin, options),
                  enabled |-> enabled,
                  merged |-> NoneValue]
    IN  New(load_plugin_schema(schemas, plugin))

RECURSIVE recursive_dict_update(_, _)
\* recursive_dict_update(d1, d2): d2 merged into d1; two dicts under one key are
\* merged recursively, and otherwise the value of d2 wins.
recursive_dict_update(d1, d2) ==
    [k \in DOMAIN d1 \cup DOMAIN d2 |->
        IF k \notin DOMAIN d2 THEN d1[k]
        ELSE IF k \in DOMAIN d1 /\ IsDict(d1[k]) /\ IsDict(d2[k])
             THEN PyDict(recursive_dict_update(d1[k].dict, d2[k].dict))
             ELSE d2[k]]

RECURSIVE ReduceOptions(_, _, _, _)
\* The reduce of merged_options over the options from position i on: each
\* option's converted dict is merged into acc; a converter's exception ends it.
ReduceOptions(schemas, section, i, acc) ==
    LET Merge(c) ==
            IF IsErr(c) THEN c
            ELSE ReduceOptions(schemas, section, i + 1, recursive_dict_update(acc, c.dict))
    IN  IF i > Len(section.options) THEN PyDict(acc)
        ELSE Merge(converted(schemas, section.plugin, Key(section.options[i]),
                             Value(section.options[i]),
                             load_plugin_schema(schemas, section.plugin)))

\* Section.merged_options: the cached dict, or the reduce over the options.
merged_options(schemas, section) ==
    IF section.merged # NoneValue THEN section.merged
    ELSE ReduceOptions(schemas, section, 1, EmptyDict)

\* A get_cfg_dict that adds enabled only when it is true.
get_cfg_dict_enabled_if_true(schemas, section, with_meta) ==
    LET package == "package" :> PyStr("yandextank.plugins." \o section.plugin)
        enabled == IF section.enabled # "True" THEN EmptyDict
                   ELSE "enabled" :> PyBool(TRUE)
        WithMeta(options_dict) ==
            IF IsErr(options_dict) \/ ~with_meta THEN options_dict
            ELSE PyDict(DictUpdate(DictUpdate(options_dict.dict, package), enabled))
    IN  WithMeta(merged_options(schemas, section))

\* Section.get_cfg_dict(with_meta): merged_options, updated in place with
\* package and, unless it is None, enabled.
get_cfg_dict(schemas, section, with_meta) ==
    LET package == "package" :> PyStr("yandextank.plugins." \o section.plugin)
        enabled == IF section.enabled = "None" THEN EmptyDict
                   ELSE "enabled" :> PyBool(section.enabled = "True")
        WithMeta(options_dict) ==
            IF IsErr(options_dict) \/ ~with_meta THEN options_dict
            ELSE PyDict(DictUpdate(DictUpdate(options_dict.dict, package), enabled))
    IN  WithMeta(merged_options(schemas, section))

\* The first exception of a list of results, or NoneValue.
FirstErr(results) ==
    IF \E i \in DOMAIN results : IsErr(results[i])
    THEN results[CHOOSE i \in DOMAIN results :
                    IsErr(results[i]) /\ \A j \in 1..(i - 1) : ~IsErr(results[j])]
    ELSE NoneValue

RECURSIVE FilterByName(_, _, _)
\* filter(lambda section: section.name == name, secs) when equal, and the
\* filter on section.name != name when not.
FilterByName(secs, name, equal) ==
    IF secs = <<>> THEN <<>>
    ELSE (IF (Head(secs).name = name) = equal THEN <<Head(secs)>> ELSE <<>>)
            \o FilterByName(Tail(secs), name, equal)

\* Section.from_multiple(sections, parent_name, child_name, is_list): the master
\* with the other sections attached to its merged options, or the exception.
from_multiple(schemas, secs, parent_name, child_name, is_list) ==
    LET Attach(master, rest, children, merged) ==
            IF is_list /\ IsErr(FirstErr(children)) THEN FirstErr(children)
            ELSE IF ~is_list /\ rest = <<>> THEN [err |-> "IndexError"]
            ELSE IF ~is_list /\ IsErr(children[1]) THEN children[1]
            ELSE IF IsErr(merged) THEN merged
            ELSE [master EXCEPT !.merged =
                    PyDict(DictUpdate(merged.dict,
                        IF is_list
                        THEN "multi" :> PyList([i \in DOMAIN rest |-> children[i].dict])
                        ELSE child_name :> children[1]))]
        Pick(masters, rest) ==
            IF masters = <<>> THEN [err |-> "IndexError"]
            ELSE Attach(masters[1], rest,
                        [i \in DOMAIN rest |-> get_cfg_dict(schemas, rest[i], FALSE)],
                        merged_options(schemas, masters[1]))
    IN  IF Len(secs) = 1 THEN secs[1]
        ELSE IF parent_name # ""
             THEN Pick(FilterByName(secs, parent_name, TRUE),
                       FilterByName(secs, parent_name, FALSE))
             ELSE Pick(secs, Tail(secs))

(***************************************************************************)
(* The ini file                                                            *)
(***************************************************************************)

PLUGIN_PREFIX == "plugin_"

CORE_SECTION == "tank"

\* The keys of a list of options.
Keys(options) == {Key(options[i]) : i \in DOMAIN options}

\* cfg_ini.sections(): the names of the sections, in file order.
SectionNames(cfg) == [i \in DOMAIN cfg.sections |-> cfg.sections[i].name]

\* cfg_ini.has_section(section)
has_section(cfg, section) == \E i \in DOMAIN cfg.sections : cfg.sections[i].name = section

\* The options written under [section] in the file.
OwnOptions(cfg, section) ==
    cfg.sections[CHOOSE i \in DOMAIN cfg.sections : cfg.sections[i].name = section].options

RECURSIVE OptionsNotIn(_, _)
\* The options of the list whose key is not among keys, in order.
OptionsNotIn(options, keys) ==
    IF options = <<>> THEN <<>>
    ELSE (IF Key(Head(options)) \in keys THEN <<>> ELSE <<Head(options)>>)
            \o OptionsNotIn(Tail(options), keys)

\* cfg_ini.items(section): the defaults, each with the section's own value when
\* the section sets it, then the section's other options.
Items(cfg, section) ==
    LET own == OwnOptions(cfg, section)
        Own(key) == Value(own[CHOOSE i \in DOMAIN own : Key(own[i]) = key])
    IN  [i \in DOMAIN cfg.defaults |->
            IF Key(cfg.defaults[i]) \in Keys(own)
            THEN <<Key(cfg.defaults[i]), Own(Key(cfg.defaults[i]))>>
            ELSE cfg.defaults[i]]
        \o OptionsNotIn(own, Keys(cfg.defaults))

\* without_defaults(cfg_ini, section)
without_defaults(cfg, section) ==
    OptionsNotIn(IF has_section(cfg, section) THEN Items(cfg, section) ELSE <<>>,
                 Keys(cfg.defaults))

\* core_options(cfg_ini)
core_options(cfg) == IF has_section(cfg, CORE_SECTION) THEN Items(cfg, CORE_SECTION) ELSE <<>>

RECURSIVE NamesWithoutCore(_)
NamesWithoutCore(names) ==
    IF names = <<>> THEN <<>>
    ELSE (IF Head(names) # CORE_SECTION THEN <<Head(names)>> ELSE <<>>)
            \o NamesWithoutCore(Tail(names))

\* parse_sections(cfg_ini): a Section for every section but the core one, or the
\* first exception of guess_plugin or Section.
parse_sections(cfg, ord) ==
    LET Build(name, plugin) ==
            IF IsErr(plugin) THEN plugin
            ELSE Section(cfg.schemas, name, plugin.str, without_defaults(cfg, name), "None")
        Each(names) == [i \in DOMAIN names |-> Build(names[i], guess_plugin(ord, names[i]))]
        Listed(built) == IF IsErr(FirstErr(built)) THEN FirstErr(built) ELSE PyList(built)
    IN  Listed(Each(NamesWithoutCore(SectionNames(cfg))))

(***************************************************************************)
(* combine_sections                                                        *)
(***************************************************************************)

\* PLUGINS_TO_COMBINE: plugin -> (parent name, child name, is_list).
PLUGINS_TO_COMBINE ==
    ("Phantom" :> [parent_name |-> "phantom", child_name |-> "multi", is_list |-> TRUE])
        @@ ("Bfg" :> [parent_name |-> "bfg", child_name |-> "gun_config", is_list |-> FALSE])

RECURSIVE SectionsOf(_, _)
\* The sections of the plugin, in the order of the list.
SectionsOf(secs, plugin) ==
    IF secs = <<>> THEN <<>>
    ELSE (IF Head(secs).plugin = plugin THEN <<Head(secs)>> ELSE <<>>)
            \o SectionsOf(Tail(secs), plugin)

\* The dict plugins after the first loop of combine_sections: the list of its
\* sections for a plugin to combine, and the last of its sections for another.
PluginsDict(secs) ==
    [plugin \in {secs[i].plugin : i \in DOMAIN secs} |->
        IF plugin \in DOMAIN PLUGINS_TO_COMBINE
        THEN PyList(SectionsOf(secs, plugin))
        ELSE Last(SectionsOf(secs, plugin))]

\* Every order a dict of these keys may be iterated in.
DictOrders(keys) ==
    {perm \in [1..Cardinality(keys) -> keys] :
        \A i, j \in 1..Cardinality(keys) : i # j => perm[i] # perm[j]}

\* combine_sections(sections), plugins being iterated in the order perm: the
\* values of plugins after the second loop, or its first exception.
combine_sections(schemas, secs, perm) ==
    LET Combine(plugins) ==
            [i \in DOMAIN perm |->
                IF "list" \in DOMAIN plugins[perm[i]]
                THEN from_multiple(schemas, plugins[perm[i]].list,
                                   PLUGINS_TO_COMBINE[perm[i]].parent_name,
                                   PLUGINS_TO_COMBINE[perm[i]].child_name,
                                   PLUGINS_TO_COMBINE[perm[i]].is_list)
                ELSE plugins[perm[i]]]
        Values(combined) ==
            IF IsErr(FirstErr(combined)) THEN FirstErr(combined) ELSE PyList(combined)
    IN  Values(Combine(PluginsDict(secs)))

(***************************************************************************)
(* The run of convert_ini, call by call                                    *)
(***************************************************************************)

\* The schema files of the plugins: option name -> [type |-> t].
PluginSchemas ==
    [plugin \in KnownPlugins |->
        CASE plugin = "Phantom" ->
                ("address" :> [type |-> "string"]) @@ ("instances" :> [type |-> "integer"])
                    @@ ("ssl" :> [type |-> "boolean"])
          [] plugin = "Bfg" -> ("address" :> [type |-> "string"])
          [] plugin = "Aggregator" -> ("verbose_histogram" :> [type |-> "boolean"])
          [] plugin = "DataUploader" -> ("job_name" :> [type |-> "string"])
          [] OTHER -> EmptyDict]

\* The schema of the core options.
CoreSchema ==
    ("lock_dir" :> [type |-> "string"]) @@ ("ignore_locks" :> [type |-> "boolean"])

\* The sequences of at most n distinct elements of the set.
RECURSIVE SeqsUpTo(_, _)
SeqsUpTo(S, n) ==
    IF n = 0 THEN {<<>>}
    ELSE LET shorter == SeqsUpTo(S, n - 1)
         IN  shorter \cup {Append(q, x) : q \in {r \in shorter : Len(r) = n - 1}, x \in S}

\* The option lists of at most n options of the pool, no key twice.
OptionLists(pool, n) ==
    {q \in SeqsUpTo(pool, n) : \A i, j \in DOMAIN q : i # j => Key(q[i]) # Key(q[j])}

\* The lists of at most n sections with names of the pool, no name twice.
NameLists(pool, n) ==
    {q \in SeqsUpTo(pool, n) : \A i, j \in DOMAIN q : i # j => q[i] # q[j]}

\* The most sections a file handed to combine_sections holds.
MaxSections == 2

\* The most options the sections of such a file hold together.
MaxOptions == 2

RECURSIVE TotalLen(_)
\* The number of options of a list of option lists.
TotalLen(lists) == IF lists = <<>> THEN 0 ELSE Len(Head(lists)) + TotalLen(Tail(lists))

CombineNames == {"phantom", "phantom-1", "phantom-2", "aggregator", "bfg", "http_gun"}

CombineOptions == {<<"address", "h">>, <<"stpd_file", "f">>, <<"time_periods", "1">>}

\* A file without core section and defaults.
InitCombine ==
    /\ phase = "start"
    /\ \E names \in NameLists(CombineNames, MaxSections) :
         \E opts \in {o \in [DOMAIN names -> OptionLists(CombineOptions, MaxOptions)] :
                            TotalLen(o) <= MaxOptions} :
            ini = [sections |-> [i \in DOMAIN names |-> [name |-> names[i], options |-> opts[i]]],
                   defaults |-> <<>>,
                   schemas |-> PluginSchemas,
                   core_schema |-> CoreSchema]
    /\ order \in {SourceOrder, Reverse(SourceOrder)}
    /\ sections = <<>>
    /\ leftover = <<>>
    /\ output = "None"

\* convert_ini: the call of parse_sections.
ParseSections ==
    /\ phase = "start"
    /\ LET Returned(parsed) ==
               IF IsErr(parsed)
               THEN phase' = "failed" /\ output' = parsed /\ UNCHANGED sections
               ELSE phase' = "parsed" /\ sections' = parsed.list /\ UNCHANGED output
       IN  Returned(parse_sections(ini, order))
    /\ UNCHANGED <<ini, order, leftover>>

\* convert_ini: the call of combine_sections on the parsed sections.
CombineSections ==
    /\ phase = "parsed"
    /\ \E perm \in DictOrders({sections[i].plugin : i \in DOMAIN sections}) :
          LET Returned(combined) ==
                  IF IsErr(combined)
                  THEN phase' = "failed" /\ output' = combined /\ UNCHANGED sections
                  ELSE phase' = "combined" /\ sections' = combined.list /\ UNCHANGED output
          IN  Returned(combine_sections(ini.schemas, sections, perm))
    /\ UNCHANGED <<ini, order, leftover>>

NextCombine == ParseSections \/ CombineSections

SpecCombine == InitCombine /\ [][NextCombine]_vars

(***************************************************************************)
(* enable_sections                                                         *)
(***************************************************************************)

\* old_plugin_mapper(package)
old_plugin_mapper(package) == IF package = "Overload" THEN "DataUploader" ELSE package

\* parse_package_name(package_path)
parse_package_name(package_path) ==
    old_plugin_mapper(
        IF StartsWith(package_path, "Tank/Plugins/")
        THEN Split(Last(Split(package_path, "/")), ".")[1]
        ELSE Last(Split(package_path, ".")))

\* Whether x is an element of the list.
InList(seq, x) == \E i \in DOMAIN seq : seq[i] = x

RECURSIVE ListRemove(_, _)
\* list.remove(x): the list without the first occurrence of x.
ListRemove(seq, x) ==
    IF seq = <<>> THEN <<>>
    ELSE IF Head(seq) = x THEN Tail(seq)
    ELSE <<Head(seq)>> \o ListRemove(Tail(seq), x)

RECURSIVE EnabledPlugins(_)
\* enabled_plugins: parse_package_name of the value of every plugin_ option
\* whose value is a non-empty string.
EnabledPlugins(core_opts) ==
    IF core_opts = <<>> THEN <<>>
    ELSE (IF StartsWith(Key(Head(core_opts)), PLUGIN_PREFIX) /\ Value(Head(core_opts)) # ""
          THEN <<parse_package_name(Value(Head(core_opts)))>>
          ELSE <<>>)
            \o EnabledPlugins(Tail(core_opts))

RECURSIVE DisabledPlugins(_, _)
\* disabled_plugins before any exception: guess_plugin of the second '_'-field
\* of the key of every plugin_ option whose value is the empty string.
DisabledPlugins(ord, core_opts) ==
    IF core_opts = <<>> THEN <<>>
    ELSE (IF StartsWith(Key(Head(core_opts)), PLUGIN_PREFIX) /\ Value(Head(core_opts)) = ""
          THEN <<guess_plugin(ord, Split(Key(Head(core_opts)), "_")[2])>>
          ELSE <<>>)
            \o DisabledPlugins(ord, Tail(core_opts))

\* The strings of a list of [str |-> s].
Strs(results) == [i \in DOMAIN results |-> results[i].str]

\* A loop body with elif: a section takes a directive of one list only.
EnableOne_elif(section, enabled_plugins, disabled_plugins) ==
    IF InList(enabled_plugins, section.plugin)
    THEN [section |-> [section EXCEPT !.enabled = "True"],
          enabled_plugins |-> ListRemove(enabled_plugins, section.plugin),
          disabled_plugins |-> disabled_plugins]
    ELSE IF InList(disabled_plugins, section.plugin)
    THEN [section |-> [section EXCEPT !.enabled = "False"],
          enabled_plugins |-> enabled_plugins,
          disabled_plugins |-> ListRemove(disabled_plugins, section.plugin)]
    ELSE [section |-> section,
          enabled_plugins |-> enabled_plugins,
          disabled_plugins |-> disabled_plugins]

\* A loop body that removes every matching directive, not the first only.
EnableOne_remove_all(section, enabled_plugins, disabled_plugins) ==
    LET Others(seq) == SelectSeq(seq, LAMBDA x : x # section.plugin)
    IN  [section |-> [section EXCEPT !.enabled =
                        IF InList(disabled_plugins, section.plugin) THEN "False"
                        ELSE IF InList(enabled_plugins, section.plugin) THEN "True"
                        ELSE @],
         enabled_plugins |-> Others(enabled_plugins),
         disabled_plugins |-> Others(disabled_plugins)]

\* The body of the loop over the sections: the section and the two lists after it.
EnableOne(section, enabled_plugins, disabled_plugins) ==
    LET on == InList(enabled_plugins, section.plugin)
        off == InList(disabled_plugins, section.plugin)
    IN  [section |-> [section EXCEPT !.enabled =
                        IF off THEN "False" ELSE IF on THEN "True" ELSE @],
         enabled_plugins |->
            IF on THEN ListRemove(enabled_plugins, section.plugin) ELSE enabled_plugins,
         disabled_plugins |->
            IF off THEN ListRemove(disabled_plugins, section.plugin) ELSE disabled_plugins]

RECURSIVE EnableLoop(_, _, _, _)
\* The loop over the sections from position i on: the sections with their flags
\* and the two lists when the loop ends.
EnableLoop(secs, i, enabled_plugins, disabled_plugins) ==
    LET Rest(one) ==
            EnableLoop([secs EXCEPT ![i] = one.section], i + 1,
                       one.enabled_plugins, one.disabled_plugins)
    IN  IF i > Len(secs)
        THEN [sections |-> secs,
              enabled_plugins |-> enabled_plugins,
              disabled_plugins |-> disabled_plugins]
        ELSE Rest(EnableOne(secs[i], enabled_plugins, disabled_plugins))

\* enable_sections(sections, core_options): the sections with their flags and
\* the synthetic sections appended, with the two lists as the loop left them,
\* or the first exception.
enable_sections(schemas, ord, secs, core_opts) ==
    LET Synthetic(plugins, flag) ==
            [i \in DOMAIN plugins |->
                Section(schemas, Lower(plugins[i]), plugins[i], <<>>, flag)]
        Append2(looped, new) ==
            IF IsErr(FirstErr(new)) THEN FirstErr(new)
            ELSE [list |-> looped.sections \o new,
                  enabled_plugins |-> looped.enabled_plugins,
                  disabled_plugins |-> looped.disabled_plugins]
        Synthesize(looped) ==
            Append2(looped, Synthetic(looped.enabled_plugins, "True")
                                \o Synthetic(looped.disabled_plugins, "False"))
        Loop(disabled) ==
            IF IsErr(FirstErr(disabled)) THEN FirstErr(disabled)
            ELSE Synthesize(EnableLoop(secs, 1, EnabledPlugins(core_opts), Strs(disabled)))
    IN  Loop(DisabledPlugins(ord, core_opts))

(***************************************************************************)
(* convert_ini                                                             *)
(***************************************************************************)

\* OPTIONS_MAP: plugin -> option name -> converter.
OPTIONS_MAP ==
    ("Phantom" :> (("rps_schedule" :> "convert_rps_schedule")
                    @@ ("instances_schedule" :> "convert_instances_schedule")))
    @@ ("DataUploader" :> EmptyDict)

\* type_cast(plugin, option, value, schema): the value, coerced as the schema
\* types the option, or the exception of int.
type_cast(schemas, plugin, option, value, schema) ==
    LET Cast(used) ==
            IF IsErr(used) THEN used
            ELSE IF option \notin DOMAIN used THEN PyStr(value)
            ELSE IF used[option].type = "boolean" THEN PyBool(to_bool(value))
            ELSE IF used[option].type = "integer"
                 THEN IF IsIntLiteral(value) THEN PyInt(IntValue(value))
                      ELSE [err |-> "ValueError"]
            ELSE PyStr(value)
    IN  Cast(IF schema # EmptyDict THEN schema
             ELSE load_plugin_schema(schemas, plugin))

\* option_converter(plugin, option, schema): [pair |-> <<key, value>>] of the
\* option with its value cast, the dict of a converter of OPTIONS_MAP, or the
\* exception.
option_converter(schemas, plugin, option, schema) ==
    LET Pair(cast) == IF IsErr(cast) THEN cast ELSE [pair |-> <<Key(option), cast>>]
    IN  IF plugin \in DOMAIN OPTIONS_MAP /\ Key(option) \in DOMAIN OPTIONS_MAP[plugin]
        THEN ApplyConverter(OPTIONS_MAP[plugin][Key(option)], Key(option), Value(option))
        ELSE Pair(type_cast(schemas, plugin, Key(option), Value(option), schema))

RECURSIVE NotDirectives(_)
\* The options whose key does not start with PLUGIN_PREFIX, in order.
NotDirectives(options) ==
    IF options = <<>> THEN <<>>
    ELSE (IF StartsWith(Key(Head(options)), PLUGIN_PREFIX) THEN <<>> ELSE <<Head(options)>>)
            \o NotDirectives(Tail(options))

RECURSIVE DictOfPairs(_, _)
\* dict(pairs): a later pair replaces an earlier one of its key.
DictOfPairs(pairs, acc) ==
    IF pairs = <<>> THEN acc
    ELSE DictOfPairs(Tail(pairs), DictUpdate(acc, Head(pairs).pair[1] :> Head(pairs).pair[2]))

RECURSIVE DictOfSections(_, _, _)
\* {section.name: section.get_cfg_dict() for section in ready_sections}: a
\* later section replaces an earlier one of its name.
DictOfSections(secs, cfgs, acc) ==
    IF secs = <<>> THEN acc
    ELSE DictOfSections(Tail(secs), Tail(cfgs), DictUpdate(acc, Head(secs).name :> Head(cfgs)))

\* The lines of convert_ini after ready_sections: the config dict, or the first
\* exception of a converter.
plugins_cfg_dict(cfg, ready_sections) ==
    LET WithCore(dict, core) ==
            IF IsErr(FirstErr(core)) THEN FirstErr(core)
            ELSE PyDict(DictUpdate(dict, "core" :> PyDict(DictOfPairs(core, EmptyDict))))
        Core(options) ==
            [i \in DOMAIN options |->
                option_converter(cfg.schemas, "core", options[i], cfg.core_schema)]
        Plugins(cfgs) ==
            IF IsErr(FirstErr(cfgs)) THEN FirstErr(cfgs)
            ELSE WithCore(DictOfSections(ready_sections, cfgs, EmptyDict),
                          Core(NotDirectives(without_defaults(cfg, CORE_SECTION))))
    IN  Plugins([i \in DOMAIN ready_sections |->
                    get_cfg_dict(cfg.schemas, ready_sections[i], TRUE)])

\* convert_ini: the call of enable_sections on the combined sections.
EnableSections ==
    /\ phase = "combined"
    /\ LET Returned(ready) ==
               IF IsErr(ready)
               THEN phase' = "failed" /\ output' = ready /\ UNCHANGED <<sections, leftover>>
               ELSE /\ phase' = "enabled"
                    /\ sections' = ready.list
                    /\ leftover' = [enabled_plugins |-> ready.enabled_plugins,
                                    disabled_plugins |-> ready.disabled_plugins]
                    /\ UNCHANGED output
       IN  Returned(enable_sections(ini.schemas, order, sections, core_options(ini)))
    /\ UNCHANGED <<ini, order>>

\* convert_ini: the config dict of the ready sections and the core options.
BuildConfig ==
    /\ phase = "enabled"
    /\ LET Returned(dict) ==
               /\ phase' = (IF IsErr(dict) THEN "failed" ELSE "done")
               /\ output' = dict
       IN  Returned(plugins_cfg_dict(ini, sections))
    /\ UNCHANGED <<ini, order, sections, leftover>>

\* The most sections, the core section aside, of a file handed to convert_ini.
MaxIniSections == 2

\* The most options of the core section of such a file.
MaxCoreOptions == 2

IniNames == {"phantom", "phantom-1", "meta", "overload", "foo"}

\* The options of a plugin section of such a file.
IniOptionLists == {<<>>, << <<"address", "h">> >>}

IniCoreOptions ==
    {<<k, v>> : k \in {"plugin_rcheck", "plugin_phantom"},
                v \in {"", "0", "yandextank.plugins.Phantom"}}
        \cup {<<"ignore_locks", "1">>}

\* The DEFAULT section of such a file.
IniDefaults == {<<>>}

\* The file: the core section, when it has options, then the plugin sections.
IniFile(core, names, opts, defaults) ==
    [sections |-> (IF core = <<>> THEN <<>> ELSE <<[name |-> CORE_SECTION, options |-> core]>>)
                    \o [i \in DOMAIN names |-> [name |-> names[i], options |-> opts[i]]],
     defaults |-> defaults,
     schemas |-> PluginSchemas,
     core_schema |-> CoreSchema]

Init ==
    /\ phase = "start"
    /\ \E names \in NameLists(IniNames, MaxIniSections),
          core \in OptionLists(IniCoreOptions, MaxCoreOptions),
          defaults \in IniDefaults :
         \E opts \in [DOMAIN names -> IniOptionLists] :
            ini = IniFile(core, names, opts, defaults)
    /\ order = SourceOrder
    /\ sections = <<>>
    /\ leftover = <<>>
    /\ output = "None"

Next == ParseSections \/ CombineSections \/ EnableSections \/ BuildConfig

Spec == Init /\ [][Next]_vars

\* The most sections of a list handed to enable_sections.
MaxEnableSections == 2

\* The most options of the core section handed to enable_sections.
MaxDirectives == 2

EnableNames == {"phantom", "phantom-1", "meta", "overload"}

EnableCoreOptions ==
    {<<k, v>> : k \in {"plugin_phantom", "plugin_phantom-1", "plugin_meta"},
                v \in {"", "yandextank.plugins.Phantom", "Tank/Plugins/Overload.py"}}

\* A call of enable_sections: the sections are built from the names as
\* parse_sections builds them, whether or not combine_sections would keep them.
InitEnable ==
    /\ phase = "combined"
    /\ order = SourceOrder
    /\ \E names \in NameLists(EnableNames, MaxEnableSections),
          core \in OptionLists(EnableCoreOptions, MaxDirectives) :
         /\ ini = IniFile(core, names, [i \in DOMAIN names |-> <<>>], <<>>)
         /\ sections = parse_sections(IniFile(core, names, [i \in DOMAIN names |-> <<>>], <<>>),
                                      SourceOrder).list
    /\ leftover = <<>>
    /\ output = "None"

NextEnable == EnableSections

SpecEnable == InitEnable /\ [][NextEnable]_vars

(***************************************************************************)
(* enable_sections: the claims                                             *)
(***************************************************************************)

\* The number of positions of the list that hold x.
Count(seq, x) == Cardinality({i \in DOMAIN seq : seq[i] = x})

Min(a, b) == IF a <= b THEN a ELSE b

\* The sections handed to enable_sections under SpecEnable.
Given == parse_sections(ini, order).list

\* The core options of the file, as written.
CoreWritten == IF has_section(ini, CORE_SECTION) THEN OwnOptions(ini, CORE_SECTION) ELSE <<>>

\* The plugin the key of a directive names.
NamedByKey(key) ==
    CASE key \in {"plugin_phantom", "plugin_phantom-1"} -> "Phantom"
      [] key = "plugin_meta" -> "DataUploader"
      [] key = "plugin_rcheck" -> "ResourceCheck"
      [] OTHER -> "?"

\* The plugin a directive names: an enabling one by its value, a disabling one
\* by its key.
Named(option) ==
    CASE Value(option) = "yandextank.plugins.Phantom" -> "Phantom"
      [] Value(option) = "Tank/Plugins/Overload.py" -> "DataUploader"
      [] Value(option) = "" -> NamedByKey(Key(option))
      [] OTHER -> "?"

\* The number of directives among the core options that name plugin P with the
\* flag.
Directives(core, P, flag) ==
    Cardinality({i \in DOMAIN core :
        /\ StartsWith(Key(core[i]), "plugin_")
        /\ Named(core[i]) = P
        /\ (flag = "False") = (Value(core[i]) = "")})

\* The number of sections of plugin P in the list.
GivenOf(given, P) == Cardinality({i \in DOMAIN given : given[i].plugin = P})

\* The synthetic section of plugin P with the flag.
SyntheticSection(P, flag) ==
    [init_name |-> Lower(P), name |-> Lower(P), plugin |-> P, options |-> <<>>,
     enabled |-> flag, merged |-> NoneValue]

Other(flag) == IF flag = "True" THEN "False" ELSE "True"

(* C4: when the directives that name plugin P all carry one flag, with n given
   sections of P and d such directives, min(n, d) of the given sections get
   that flag and d - min(n, d) synthetic sections of P, with no options and
   that flag, are appended. *)
C4_Consumption ==
    phase = "enabled" =>
        LET Holds(given, core) ==
                \A P \in {"Phantom", "DataUploader"}, flag \in {"True", "False"} :
                    LET Counts(n, d) ==
                            /\ Cardinality({i \in DOMAIN given :
                                    sections[i].plugin = P /\ sections[i].enabled = flag})
                                 = Min(n, d)
                            /\ Cardinality({i \in DOMAIN sections :
                                    i > Len(given) /\ sections[i] = SyntheticSection(P, flag)})
                                 = d - Min(n, d)
                            /\ \A i \in DOMAIN given :
                                    given[i].plugin = P
                                        => [sections[i] EXCEPT !.enabled = "None"] = given[i]
                    IN  Directives(core, P, Other(flag)) = 0
                            => Counts(GivenOf(given, P), Directives(core, P, flag))
        IN  Holds(Given, CoreWritten)

\* One section of Phantom and two directives enabling Phantom: the section is
\* enabled and one synthetic enabled section follows it.
C4_Witness ==
    /\ phase = "enabled"
    /\ GivenOf(Given, "Phantom") = 1
    /\ Directives(CoreWritten, "Phantom", "True") = 2
    /\ Directives(CoreWritten, "Phantom", "False") = 0
    /\ Len(sections) = Len(Given) + 1
    /\ \E i \in DOMAIN Given : sections[i].plugin = "Phantom" /\ sections[i].enabled = "True"
    /\ sections[Len(sections)] = SyntheticSection("Phantom", "True")

\* The directives naming P that the loop over the sections consumed.
Consumed(core, P, flag) ==
    Directives(core, P, flag)
        - Count(IF flag = "True" THEN leftover.enabled_plugins ELSE leftover.disabled_plugins, P)

(* C5 as stated: whatever the directives, a given section consumes at most one
   directive, so the directives consumed for a plugin are at most its sections. *)
C5_AsStated ==
    phase = "enabled" =>
        \A P \in {"Phantom", "DataUploader"} :
            Consumed(CoreWritten, P, "True") + Consumed(CoreWritten, P, "False")
                <= GivenOf(Given, P)

(* C5 amended: a given section consumes at most one enabling and at most one
   disabling directive of its plugin. The k-th given section of P consumes a
   disabling directive exactly when k <= the disabling directives of P, and an
   enabling one exactly when k <= the enabling ones; with both it ends disabled.
   Every directive not consumed this way gives a synthetic section. *)
C5_OncePerList ==
    phase = "enabled" =>
        LET Flag(k, d, e) ==
                IF k <= d THEN "False" ELSE IF k <= e THEN "True" ELSE "None"
            Holds(given, core) ==
                /\ \A P \in {"Phantom", "DataUploader"}, flag \in {"True", "False"} :
                    LET Counts(n, d) ==
                            /\ Consumed(core, P, flag) = Min(n, d)
                            /\ Cardinality({i \in DOMAIN sections :
                                    i > Len(given) /\ sections[i] = SyntheticSection(P, flag)})
                                 = d - Min(n, d)
                    IN  Counts(GivenOf(given, P), Directives(core, P, flag))
                /\ Len(sections) = Len(given) + Len(leftover.enabled_plugins)
                                        + Len(leftover.disabled_plugins)
                /\ \A i \in DOMAIN given :
                    sections[i].enabled =
                        Flag(Cardinality({j \in 1..i : given[j].plugin = given[i].plugin}),
                             Directives(core, given[i].plugin, "False"),
                             Directives(core, given[i].plugin, "True"))
        IN  Holds(Given, CoreWritten)

\* One section of Phantom, one directive enabling and one disabling Phantom: the
\* section consumed both and is disabled, and no synthetic section was made.
C5_Witness ==
    /\ phase = "enabled"
    /\ GivenOf(Given, "Phantom") = 1
    /\ Directives(CoreWritten, "Phantom", "True") = 1
    /\ Directives(CoreWritten, "Phantom", "False") = 1
    /\ Len(sections) = Len(Given)
    /\ \E i \in DOMAIN Given : sections[i].plugin = "Phantom" /\ sections[i].enabled = "False"

(***************************************************************************)
(* combine_sections: the claims                                            *)
(***************************************************************************)

\* The sections parse_sections returned for the file.
Parsed == parse_sections(ini, order).list

\* The positions of the parsed sections of plugin P.
ParsedOf(P) == {i \in DOMAIN Parsed : Parsed[i].plugin = P}

\* The position of the parsed section that is to be the master of plugin P: the
\* one named as the parent when there is one, and the first one otherwise.
MasterOf(P) ==
    IF \E i \in ParsedOf(P) : Parsed[i].name = PLUGINS_TO_COMBINE[P].parent_name
    THEN CHOOSE i \in ParsedOf(P) : Parsed[i].name = PLUGINS_TO_COMBINE[P].parent_name
    ELSE CHOOSE i \in ParsedOf(P) : \A j \in ParsedOf(P) : i <= j

\* The parsed sections of plugin P but its master, in input order.
ChildrenOf(P) ==
    SelectSeq(Parsed, LAMBDA sec : sec.plugin = P /\ sec # Parsed[MasterOf(P)])

\* The combined sections of plugin P.
CombinedOf(P) == {i \in DOMAIN sections : sections[i].plugin = P}

(* C3: combining two or more sections of a combinable plugin does not fail and
   returns one section for the plugin, which is the section named as the
   plugin's parent when there is one and the first section of the plugin in
   input order otherwise, every other section being a child of it. *)
C3_MasterChosen ==
    phase \in {"combined", "failed"} =>
        \A P \in DOMAIN PLUGINS_TO_COMBINE :
            Cardinality(ParsedOf(P)) >= 2 =>
                /\ phase = "combined"
                /\ \E i \in DOMAIN sections :
                    /\ CombinedOf(P) = {i}
                    /\ sections[i].init_name = Parsed[MasterOf(P)].init_name
                    /\ sections[i].merged # NoneValue
                    /\ PLUGINS_TO_COMBINE[P].is_list =>
                        /\ "multi" \in DOMAIN sections[i].merged.dict
                        /\ Len(sections[i].merged.dict["multi"].list) = Len(ChildrenOf(P))

\* Two sections of Phantom, neither named phantom, and combine_sections has
\* raised IndexError.
C3_Witness ==
    /\ phase = "failed"
    /\ output = [err |-> "IndexError"]
    /\ Cardinality(ParsedOf("Phantom")) = 2
    /\ \A i \in ParsedOf("Phantom") : Parsed[i].name # "phantom"

(* C6: in list mode, combining k >= 2 sections of a plugin gives a master whose
   merged options hold under multi the merged options of the k - 1 other
   sections, in input order and without package or enabled, and none of the
   other sections is a section of the result. *)
C6_MultiChildren ==
    phase \in {"combined", "failed"} =>
        \A P \in {Q \in DOMAIN PLUGINS_TO_COMBINE : PLUGINS_TO_COMBINE[Q].is_list} :
            Cardinality(ParsedOf(P)) >= 2 =>
                /\ phase = "combined"
                /\ \E i \in DOMAIN sections :
                    /\ CombinedOf(P) = {i}
                    /\ \A c \in DOMAIN ChildrenOf(P) :
                            sections[i].init_name # ChildrenOf(P)[c].init_name
                    /\ sections[i].merged # NoneValue
                    /\ "multi" \in DOMAIN sections[i].merged.dict
                    /\ LET multi == sections[i].merged.dict["multi"].list
                       IN  /\ Len(multi) = Cardinality(ParsedOf(P)) - 1
                           /\ Len(multi) = Len(ChildrenOf(P))
                           /\ \A c \in DOMAIN multi :
                                /\ multi[c] = merged_options(ini.schemas, ChildrenOf(P)[c]).dict
                                /\ DOMAIN multi[c] \cap {"package", "enabled"} = {}

\* Two sections of Phantom with an address each, neither named phantom, and no
\* master with the second section's options under multi comes out.
C6_Witness ==
    /\ phase = "failed"
    /\ output = [err |-> "IndexError"]
    /\ Cardinality(ParsedOf("Phantom")) = 2
    /\ \A i \in ParsedOf("Phantom") :
            Parsed[i].name # "phantom" /\ Parsed[i].options = <<<<"address", "h">>>>

\* The options written in the file under the section a Section was built from.
Written(section) == without_defaults(ini, section.init_name)

\* The deprecated option names of a plugin.
DeprecatedOf(P) == IF P \in DOMAIN DEPRECATED THEN DEPRECATED[P] ELSE {}

\* The keys of a section's merged options, and of the children nested in them.
MergedKeys(section) ==
    LET Nested(d) ==
            DOMAIN d
            \cup (IF "multi" \in DOMAIN d
                  THEN UNION {DOMAIN d["multi"].list[c] : c \in DOMAIN d["multi"].list}
                  ELSE {})
            \cup (IF "gun_config" \in DOMAIN d THEN DOMAIN d["gun_config"].dict ELSE {})
    IN  Nested(merged_options(ini.schemas, section).dict)

(* C8: a Section built for plugin P holds its input options without those named
   in P's deprecated set, the others in their order, so its length is the
   input's less the deprecated-named ones; and no deprecated name of P is a key
   of the merged options of a section or of a child nested under a master. *)
C8_Deprecated ==
    /\ phase = "parsed" =>
        \A i \in DOMAIN sections :
            LET dropped == {j \in DOMAIN Written(sections[i]) :
                                Key(Written(sections[i])[j]) \in DeprecatedOf(sections[i].plugin)}
            IN  /\ sections[i].options =
                        SelectSeq(Written(sections[i]),
                                  LAMBDA o : Key(o) \notin DeprecatedOf(sections[i].plugin))
                /\ Len(sections[i].options) = Len(Written(sections[i])) - Cardinality(dropped)
    /\ phase \in {"parsed", "combined"} =>
        \A i \in DOMAIN sections :
            /\ MergedKeys(sections[i]) \cap DeprecatedOf(sections[i].plugin) = {}
            /\ \A j \in DOMAIN Written(sections[i]) :
                    Key(Written(sections[i])[j]) \notin DeprecatedOf(sections[i].plugin)
                        => Key(Written(sections[i])[j]) \in MergedKeys(sections[i])

\* A master of Phantom written with stpd_file, which it has lost, and its one
\* child written with time_periods, which is deprecated for Aggregator only and
\* which the child keeps.
C8_Witness ==
    /\ phase = "combined"
    /\ \E i \in DOMAIN sections :
        /\ sections[i].plugin = "Phantom"
        /\ Written(sections[i]) = <<<<"stpd_file", "f">>>>
        /\ sections[i].options = <<>>
        /\ sections[i].merged # NoneValue
        /\ sections[i].merged.dict = "multi" :> PyList(<<"time_periods" :> PyStr("1")>>)

(***************************************************************************)
(* convert_ini: the claims                                                 *)
(***************************************************************************)

\* The file's sections were all classified: parse_sections returned a list.
ParsedAll == ~IsErr(parse_sections(ini, order))

\* The entry of a synthetic disabled section of plugin P.
DisabledEntry(P) ==
    PyDict(("enabled" :> PyBool(FALSE)) @@ ("package" :> PyStr("yandextank.plugins." \o P)))

\* The directives of the core section with the raw value, as positions.
DirectivesWithValue(raw) ==
    {i \in DOMAIN CoreWritten :
        StartsWith(Key(CoreWritten[i]), PLUGIN_PREFIX) /\ Value(CoreWritten[i]) = raw}

(* C1 as stated: with a directive plugin_X of raw value "0" and no section of
   plugin X, the conversion gives under the lower-cased X exactly
   {enabled: false, package: yandextank.plugins.X}. *)
C1_AsStated ==
    (phase \in {"done", "failed"} /\ ParsedAll) =>
        \A i \in DirectivesWithValue("0") :
            ParsedOf(NamedByKey(Key(CoreWritten[i]))) = {} =>
                /\ phase = "done"
                /\ Lower(NamedByKey(Key(CoreWritten[i]))) \in DOMAIN output.dict
                /\ output.dict[Lower(NamedByKey(Key(CoreWritten[i])))]
                        = DisabledEntry(NamedByKey(Key(CoreWritten[i])))

(* C1 amended: with a directive plugin_X of empty raw value and no section of
   plugin X, a conversion that completes gives under the lower-cased X exactly
   {enabled: false, package: yandextank.plugins.X}. The disabling directives
   are those of empty raw value, and a directive of raw value "0" is an enabling
   one, of the package named "0". *)
C1_EmptyDirective ==
    /\ phase = "done" =>
        \A i \in DirectivesWithValue("") :
            ParsedOf(NamedByKey(Key(CoreWritten[i]))) = {} =>
                /\ Lower(NamedByKey(Key(CoreWritten[i]))) \in DOMAIN output.dict
                /\ output.dict[Lower(NamedByKey(Key(CoreWritten[i])))]
                        = DisabledEntry(NamedByKey(Key(CoreWritten[i])))
    /\ Count(EnabledPlugins(core_options(ini)), "0") = Cardinality(DirectivesWithValue("0"))
    /\ Len(DisabledPlugins(order, core_options(ini))) = Cardinality(DirectivesWithValue(""))

\* plugin_rcheck is written empty, the file has no section of ResourceCheck,
\* and the output holds the disabled entry under resourcecheck.
C1_Witness ==
    /\ phase = "done"
    /\ \E i \in DirectivesWithValue("") : Key(CoreWritten[i]) = "plugin_rcheck"
    /\ ParsedOf("ResourceCheck") = {}
    /\ "resourcecheck" \in DOMAIN output.dict
    /\ output.dict["resourcecheck"] = DisabledEntry("ResourceCheck")

\* The merged options of the parsed section are the content of the entry of its
\* name, or one of the children under multi of the entry of its plugin's parent.
Emitted(section) ==
    LET own == merged_options(ini.schemas, section).dict
        InEntry(name) ==
            /\ name \in DOMAIN output.dict
            /\ \A k \in DOMAIN own :
                    k \in DOMAIN output.dict[name].dict /\ output.dict[name].dict[k] = own[k]
            /\ output.dict[name].dict["package"] = PyStr("yandextank.plugins." \o section.plugin)
        Nested(parent) ==
            /\ parent \in DOMAIN output.dict
            /\ "multi" \in DOMAIN output.dict[parent].dict
            /\ \E c \in DOMAIN output.dict[parent].dict["multi"].list :
                    output.dict[parent].dict["multi"].list[c] = own
    IN  \/ InEntry(section.name)
        \/ /\ section.plugin \in DOMAIN PLUGINS_TO_COMBINE
           /\ Nested(PLUGINS_TO_COMBINE[section.plugin].parent_name)

(* C10: when every section of the file classifies, no section is lost: the
   merged options of every parsed section are in the output, under its own name
   or nested under the master of its plugin, and no two sections of the final
   list have one name. *)
C10_NothingLost ==
    phase = "done" =>
        /\ \A i, j \in DOMAIN sections : i # j => sections[i].name # sections[j].name
        /\ \A i \in DOMAIN Parsed : Emitted(Parsed[i])

\* The file holds [meta] and [overload], both of DataUploader, and the output
\* holds the entry of only one of them.
C10_Witness ==
    /\ phase = "done"
    /\ {Parsed[i].init_name : i \in DOMAIN Parsed} = {"meta", "overload"}
    /\ Cardinality({"uploader", "overload"} \cap DOMAIN output.dict) = 1

====
